---- MODULE Spec2Model ----
(***************************************************************************)
(* State-machine model of the Cognito HTTP facade (src/main.go, lines      *)
(* 1-325, and the environment package).  main() runs the startup steps in  *)
(* order; once the listener runs, every worker serves one request at a     *)
(* time.  A POST handler is split at its single blocking remote call: the  *)
(* first action binds the JSON body and issues the call, the second        *)
(* receives the identity service's result and writes the response.         *)
(***************************************************************************)
EXTENDS Integers, Sequences, FiniteSets, TLC

VARIABLES pc, dotenv, env, app, routes, reqs

vars == <<pc, dotenv, env, app, routes, reqs>>

(* ------------------------------ bounds --------------------------------- *)
\* number of distinct non-empty strings a JSON field may carry
NumValues == 2
\* number of requests handled concurrently in SpecConc
NumWorkers == 2

Values == {ToString(i) : i \in 1..NumValues}
\* a JSON string field may also be present but empty
Strings == {""} \cup Values

(* --------------------------- JSON documents ---------------------------- *)
\* A JSON object is a function from the keys that are present to values.
EmptyObj == [k \in {} |-> ""]
Objects(keys, vals) == UNION {[D -> vals] : D \in SUBSET keys}

CredentialBodies == Objects({"username", "password"}, Strings)
WithUser(rest) == rest \cup {[user |-> u] @@ r : u \in CredentialBodies, r \in rest}

\* request bodies offered on each route, well-formed and not
Bodies(route) ==
  CASE route = "/signup" -> WithUser(Objects({"email", "name"}, Strings))
    [] route = "/signup/confirmation" -> Objects({"username", "confirmationCode"}, Strings)
    [] route = "/signin" -> CredentialBodies
    [] route = "/password/forgot" -> Objects({"username"}, Strings)
    [] route = "/password/reset" -> WithUser(Objects({"confirmationCode"}, Strings))
    [] route = "/signout" -> Objects({"accessToken"}, Strings)
    [] OTHER -> CredentialBodies

\* decodable = FALSE: the body is not JSON of the expected shape at all
Requests(method, route) ==
  {[method |-> method, route |-> route, decodable |-> d, body |-> b] :
     d \in BOOLEAN, b \in Bodies(route)}

\* the bodies used when several requests are in flight: every field present
\* and carrying the same value, or no field at all
FullBody(route, v) ==
  CASE route = "/signup" -> [user |-> [username |-> v, password |-> v], email |-> v, name |-> v]
    [] route = "/signup/confirmation" -> [username |-> v, confirmationCode |-> v]
    [] route = "/signin" -> [username |-> v, password |-> v]
    [] route = "/password/forgot" -> [username |-> v]
    [] route = "/password/reset" -> [user |-> [username |-> v, password |-> v], confirmationCode |-> v]
    [] route = "/signout" -> [accessToken |-> v]
    [] OTHER -> [username |-> v, password |-> v]

ConcRequests(method, route) ==
  {[method |-> method, route |-> route, decodable |-> TRUE, body |-> b] :
     b \in {EmptyObj} \cup {FullBody(route, v) : v \in Values}}

(* ----------------------------- environment ----------------------------- *)
\* contents of the .env file
DotEnvFile ==
  [COGNITO_USER_POOL_ID |-> "pool-id",
   COGNITO_APP_CLIENT_ID |-> "client-id",
   COGNITO_APP_CLIENT_SECRET |-> "client-secret"]

\* os.Getenv of a variable that is not set is ""
UnsetEnv ==
  [COGNITO_USER_POOL_ID |-> "", COGNITO_APP_CLIENT_ID |-> "", COGNITO_APP_CLIENT_SECRET |-> ""]

GetCognitoUserPoolId == env.COGNITO_USER_POOL_ID
GetCognitoAppClientId == env.COGNITO_APP_CLIENT_ID
GetCognitoAppClientSecret == env.COGNITO_APP_CLIENT_SECRET

\* zero value of the App struct
ZeroApp ==
  [CognitoClient |-> "nil", UserPoolID |-> "", AppClientID |-> "",
   AppClientSecret |-> "", Token |-> ""]

NoResult == [err |-> "", out |-> EmptyObj]

IdleReq ==
  [phase |-> "idle", method |-> "", route |-> "", decodable |-> TRUE,
   body |-> EmptyObj, calls |-> <<>>, result |-> NoResult, resps |-> <<>>]

Workers == DOMAIN reqs

(* ------------------------------- startup ------------------------------- *)
InitCommon ==
  /\ pc = "start"
  /\ dotenv \in {"readable", "unreadable"}
  /\ env = UnsetEnv
  /\ app = ZeroApp
  /\ routes = {}

Init == InitCommon /\ reqs = [w \in 1..1 |-> IdleReq]

InitConc == InitCommon /\ reqs = [w \in 1..NumWorkers |-> IdleReq]

\* variant: the load error is logged and startup goes on
EnvInit_Continues ==
  /\ pc = "start"
  /\ pc' = "envLoaded"
  /\ env' = IF dotenv = "readable" THEN DotEnvFile ELSE env
  /\ UNCHANGED <<dotenv, app, routes, reqs>>

\* godotenv.Load(".env"); log.Fatalf exits the process on error
EnvInit ==
  /\ pc = "start"
  /\ IF dotenv = "readable"
       THEN pc' = "envLoaded" /\ env' = DotEnvFile
       ELSE pc' = "exited" /\ env' = env
  /\ UNCHANGED <<dotenv, app, routes, reqs>>

\* session.Must(session.NewSession(conf)); app := App{...}
NewApp ==
  /\ pc = "envLoaded"
  /\ app' = [CognitoClient |-> "ap-south-1",
             UserPoolID |-> GetCognitoUserPoolId,
             AppClientID |-> GetCognitoAppClientId,
             AppClientSecret |-> GetCognitoAppClientSecret,
             Token |-> ""]
  /\ pc' = "appBuilt"
  /\ UNCHANGED <<dotenv, env, routes, reqs>>

\* gin.Default(); r.GET(""); r.POST(...) x 6
RegisterRoutes ==
  /\ pc = "appBuilt"
  /\ routes' = {<<"GET", "/">>, <<"POST", "/signup">>, <<"POST", "/signup/confirmation">>,
                <<"POST", "/signin">>, <<"POST", "/password/forgot">>,
                <<"POST", "/password/reset">>, <<"POST", "/signout">>}
  /\ pc' = "routesRegistered"
  /\ UNCHANGED <<dotenv, env, app, reqs>>

\* r.Run(): serves until it fails; its error is ignored and main returns
Run ==
  /\ pc = "routesRegistered"
  /\ \E bound \in BOOLEAN : pc' = IF bound THEN "listening" ELSE "exited"
  /\ UNCHANGED <<dotenv, env, app, routes, reqs>>

(* ------------------------------ BindJSON ------------------------------- *)
\* encoding/json leaves a field whose key is absent at its zero value
Str(obj, k) == IF k \in DOMAIN obj THEN obj[k] ELSE ""
Sub(obj, k) == IF k \in DOMAIN obj THEN obj[k] ELSE EmptyObj

DecodeUser(obj) == [Username |-> Str(obj, "username"), Password |-> Str(obj, "password")]

DecodeUserRegister(obj) ==
  [User |-> DecodeUser(Sub(obj, "user")), Email |-> Str(obj, "email"), Name |-> Str(obj, "name")]

DecodeUserRegisterConfirmation(obj) ==
  [Username |-> Str(obj, "username"), ConfirmationCode |-> Str(obj, "confirmationCode")]

DecodeUserForgotPassword(obj) == [Username |-> Str(obj, "username")]

DecodeUserResetPassword(obj) ==
  [User |-> DecodeUser(Sub(obj, "user")), ConfirmationCode |-> Str(obj, "confirmationCode")]

DecodeUserSignOut(obj) == [AccessToken |-> Str(obj, "accessToken")]

\* binding:"required" rejects a field left at its zero value
RequiredUser(u) == u.Username # "" /\ u.Password # ""
RequiredUserRegister(u) == RequiredUser(u.User) /\ u.Email # "" /\ u.Name # ""
RequiredUserRegisterConfirmation(u) == u.Username # "" /\ u.ConfirmationCode # ""
RequiredUserForgotPassword(u) == u.Username # ""
RequiredUserResetPassword(u) == RequiredUser(u.User) /\ u.ConfirmationCode # ""
RequiredUserSignOut(u) == u.AccessToken # ""

DecodeErrorText == "invalid character in request body"
RequiredErrorText == "Field validation failed on the 'required' tag"

\* variant: the body is decoded but the required tags are not enforced
BindJSON_DecodeOnly(req, decoded, valid) ==
  [err |-> IF ~req.decodable THEN DecodeErrorText ELSE "", obj |-> decoded]

\* ctx.BindJSON(&v): decode, then validate; "" is a nil error
BindJSON(req, decoded, valid) ==
  [err |-> IF ~req.decodable THEN DecodeErrorText
           ELSE IF ~valid THEN RequiredErrorText
           ELSE "",
   obj |-> decoded]

(* ----------------------------- remote inputs --------------------------- *)
\* variant: the two attribute values are exchanged
SignUpInput_SwapAttrs(a, newUser) ==
  [Username |-> newUser.User.Username,
   Password |-> newUser.User.Password,
   ClientId |-> a.AppClientID,
   UserAttributes |-> <<[Name |-> "email", Value |-> newUser.Name],
                        [Name |-> "name", Value |-> newUser.Email]>>]

SignUpInput(a, newUser) ==
  [Username |-> newUser.User.Username,
   Password |-> newUser.User.Password,
   ClientId |-> a.AppClientID,
   UserAttributes |-> <<[Name |-> "email", Value |-> newUser.Email],
                        [Name |-> "name", Value |-> newUser.Name]>>]

ConfirmSignUpInput(a, confirmUser) ==
  [ClientId |-> a.AppClientID,
   ConfirmationCode |-> confirmUser.ConfirmationCode,
   Username |-> confirmUser.Username]

\* variant: the client secret is sent as SECRET_HASH
InitiateAuthInput_SecretHash(a, user) ==
  [AuthFlow |-> "USER_PASSWORD_AUTH",
   AuthParameters |-> [USERNAME |-> user.Username, PASSWORD |-> user.Password,
                       SECRET_HASH |-> a.AppClientSecret],
   ClientId |-> a.AppClientID]

InitiateAuthInput(a, user) ==
  [AuthFlow |-> "USER_PASSWORD_AUTH",
   AuthParameters |-> [USERNAME |-> user.Username, PASSWORD |-> user.Password],
   ClientId |-> a.AppClientID]

ForgotPasswordInput(a, user) ==
  [Username |-> user.Username, ClientId |-> a.AppClientID]

\* variant: the new password and the confirmation code are exchanged
ConfirmForgotPasswordInput_Swapped(a, user) ==
  [Username |-> user.User.Username,
   Password |-> user.ConfirmationCode,
   ConfirmationCode |-> user.User.Password,
   ClientId |-> a.AppClientID]

ConfirmForgotPasswordInput(a, user) ==
  [Username |-> user.User.Username,
   Password |-> user.User.Password,
   ConfirmationCode |-> user.ConfirmationCode,
   ClientId |-> a.AppClientID]

GlobalSignOutInput(a, user) == [AccessToken |-> user.AccessToken]

(* --------------------------- identity service -------------------------- *)
ErrTexts ==
  {"NotAuthorizedException: Incorrect username or password.",
   "InvalidParameterException: request rejected"}

AccessTokens == {"access-token"}
IdTokens == {"id-token"}

\* a pointer is <<>> (nil) or <<v>>
AuthenticationResults ==
  {<<>>} \cup {<<[AccessToken |-> <<a>>, IdToken |-> <<i>>]>> : a \in AccessTokens, i \in IdTokens}

\* what a remote operation can return: an error, or its output
RemoteResults(op) ==
  {[err |-> e, out |-> EmptyObj] : e \in ErrTexts}
    \cup (IF op = "InitiateAuth"
            THEN {[err |-> "", out |-> [AuthenticationResult |-> r]] : r \in AuthenticationResults}
            ELSE {[err |-> "", out |-> EmptyObj]})

(* ------------------------------ responses ------------------------------ *)
\* ctx.JSON(status, gin.H{...})
JSON(status, body) == [status |-> status, body |-> body]

\* gin's Recovery middleware answers a panicking handler with a bare 500
Recovered == [status |-> 500, body |-> EmptyObj]

Serving(w, req, method, route) ==
  /\ pc = "listening"
  /\ <<method, route>> \in routes
  /\ reqs[w].phase = "idle"
  /\ req.method = method
  /\ req.route = route

Received(req) ==
  [IdleReq EXCEPT !.method = req.method, !.route = req.route,
                  !.decodable = req.decodable, !.body = req.body]

\* the handler returned after writing resp
Respond(w, r, resp) ==
  reqs' = [reqs EXCEPT ![w] = [r EXCEPT !.phase = "done", !.resps = Append(r.resps, resp)]]

\* the handler blocks in the remote operation op
Invoke(w, r, op, input) ==
  reqs' = [reqs EXCEPT ![w] = [r EXCEPT !.phase = "calling",
                                        !.calls = Append(r.calls, [op |-> op, input |-> input])]]

Returning(w, route) == reqs[w].phase = "calling" /\ reqs[w].route = route

WithResult(w, res) == [reqs[w] EXCEPT !.result = res]

(* ------------------------------- handlers ------------------------------ *)
\* variant: the root handler binds the body first
RootHandler_BindsBody(w, req) ==
  /\ Serving(w, req, "GET", "/")
  /\ IF ~req.decodable
       THEN Respond(w, Received(req), JSON(400, [error |-> DecodeErrorText]))
       ELSE Respond(w, Received(req), JSON(200, [message |-> "Learning AWS Cognito"]))
  /\ UNCHANGED <<pc, dotenv, env, app, routes>>

RootHandler(w, req) ==
  /\ Serving(w, req, "GET", "/")
  /\ Respond(w, Received(req), JSON(200, [message |-> "Learning AWS Cognito"]))
  /\ UNCHANGED <<pc, dotenv, env, app, routes>>

RegisterUser(w, req) ==
  /\ Serving(w, req, "POST", "/signup")
  /\ LET newUser == DecodeUserRegister(req.body)
         bind == BindJSON(req, newUser, RequiredUserRegister(newUser))
     IN IF bind.err # ""
          THEN Respond(w, Received(req), JSON(400, [error |-> bind.err]))
          ELSE Invoke(w, Received(req), "SignUp", SignUpInput(app, bind.obj))
  /\ UNCHANGED <<pc, dotenv, env, app, routes>>

RegisterUserReturn(w) ==
  /\ Returning(w, "/signup")
  /\ \E res \in RemoteResults("SignUp") :
       IF res.err # ""
         THEN Respond(w, WithResult(w, res), JSON(500, [error |-> res.err]))
         ELSE Respond(w, WithResult(w, res), JSON(200, [message |-> "User Registered Successfully"]))
  /\ UNCHANGED <<pc, dotenv, env, app, routes>>

ConfirmUserRegistration(w, req) ==
  /\ Serving(w, req, "POST", "/signup/confirmation")
  /\ LET confirmUser == DecodeUserRegisterConfirmation(req.body)
         bind == BindJSON(req, confirmUser, RequiredUserRegisterConfirmation(confirmUser))
     IN IF bind.err # ""
          THEN Respond(w, Received(req), JSON(400, [error |-> bind.err]))
          ELSE Invoke(w, Received(req), "ConfirmSignUp", ConfirmSignUpInput(app, bind.obj))
  /\ UNCHANGED <<pc, dotenv, env, app, routes>>

ConfirmUserRegistrationReturn(w) ==
  /\ Returning(w, "/signup/confirmation")
  /\ \E res \in RemoteResults("ConfirmSignUp") :
       IF res.err # ""
         THEN Respond(w, WithResult(w, res), JSON(500, [error |-> res.err]))
         ELSE Respond(w, WithResult(w, res), JSON(200, [message |-> "User is verified"]))
  /\ UNCHANGED <<pc, dotenv, env, app, routes>>

LoginUser(w, req) ==
  /\ Serving(w, req, "POST", "/signin")
  /\ LET user == DecodeUser(req.body)
         bind == BindJSON(req, user, RequiredUser(user))
     IN IF bind.err # ""
          THEN Respond(w, Received(req), JSON(400, [error |-> bind.err]))
          ELSE Invoke(w, Received(req), "InitiateAuth", InitiateAuthInput(app, bind.obj))
  /\ UNCHANGED <<pc, dotenv, env, app, routes>>

\* variant: a remote error is replaced by a generic refusal
LoginUserReturn_HidesError(w) ==
  /\ Returning(w, "/signin")
  /\ \E logInResult \in RemoteResults("InitiateAuth") :
       IF logInResult.err # ""
         THEN Respond(w, WithResult(w, logInResult), JSON(401, [message |-> "Login failed"]))
         ELSE IF logInResult.out.AuthenticationResult = <<>>
           THEN Respond(w, WithResult(w, logInResult), Recovered)
           ELSE Respond(w, WithResult(w, logInResult),
                  JSON(200, [message |-> "User Logged In Successfully",
                             accessToken |-> logInResult.out.AuthenticationResult[1].AccessToken[1],
                             idToken |-> logInResult.out.AuthenticationResult[1].IdToken[1]]))
  /\ UNCHANGED <<pc, dotenv, env, app, routes>>

\* variant: the access token is kept in the shared App.Token field
LoginUserReturn_StoresToken(w) ==
  /\ Returning(w, "/signin")
  /\ \E logInResult \in RemoteResults("InitiateAuth") :
       IF logInResult.err # ""
         THEN /\ Respond(w, WithResult(w, logInResult), JSON(500, [error |-> logInResult.err]))
              /\ app' = app
         ELSE IF logInResult.out.AuthenticationResult = <<>>
           THEN /\ Respond(w, WithResult(w, logInResult), Recovered)
                /\ app' = app
           ELSE /\ app' = [app EXCEPT !.Token = logInResult.out.AuthenticationResult[1].AccessToken[1]]
                /\ Respond(w, WithResult(w, logInResult),
                     JSON(200, [message |-> "User Logged In Successfully",
                                accessToken |-> logInResult.out.AuthenticationResult[1].AccessToken[1],
                                idToken |-> logInResult.out.AuthenticationResult[1].IdToken[1]]))
  /\ UNCHANGED <<pc, dotenv, env, routes>>

\* *logInResult.AuthenticationResult.AccessToken panics on a nil
\* AuthenticationResult
LoginUserReturn(w) ==
  /\ Returning(w, "/signin")
  /\ \E logInResult \in RemoteResults("InitiateAuth") :
       IF logInResult.err # ""
         THEN Respond(w, WithResult(w, logInResult), JSON(500, [error |-> logInResult.err]))
         ELSE IF logInResult.out.AuthenticationResult = <<>>
           THEN Respond(w, WithResult(w, logInResult), Recovered)
           ELSE Respond(w, WithResult(w, logInResult),
                  JSON(200, [message |-> "User Logged In Successfully",
                             accessToken |-> logInResult.out.AuthenticationResult[1].AccessToken[1],
                             idToken |-> logInResult.out.AuthenticationResult[1].IdToken[1]]))
  /\ UNCHANGED <<pc, dotenv, env, app, routes>>

ForgotPassword(w, req) ==
  /\ Serving(w, req, "POST", "/password/forgot")
  /\ LET user == DecodeUserForgotPassword(req.body)
         bind == BindJSON(req, user, RequiredUserForgotPassword(user))
     IN IF bind.err # ""
          THEN Respond(w, Received(req), JSON(400, [error |-> bind.err]))
          ELSE Invoke(w, Received(req), "ForgotPassword", ForgotPasswordInput(app, bind.obj))
  /\ UNCHANGED <<pc, dotenv, env, app, routes>>

ForgotPasswordReturn(w) ==
  /\ Returning(w, "/password/forgot")
  /\ \E res \in RemoteResults("ForgotPassword") :
       IF res.err # ""
         THEN Respond(w, WithResult(w, res), JSON(500, [error |-> res.err]))
         ELSE Respond(w, WithResult(w, res),
                JSON(200, [message |-> "Code was sent to your email. Please use that code to reset your password."]))
  /\ UNCHANGED <<pc, dotenv, env, app, routes>>

ResetPassword(w, req) ==
  /\ Serving(w, req, "POST", "/password/reset")
  /\ LET user == DecodeUserResetPassword(req.body)
         bind == BindJSON(req, user, RequiredUserResetPassword(user))
     IN IF bind.err # ""
          THEN Respond(w, Received(req), JSON(400, [error |-> bind.err]))
          ELSE Invoke(w, Received(req), "ConfirmForgotPassword", ConfirmForgotPasswordInput(app, bind.obj))
  /\ UNCHANGED <<pc, dotenv, env, app, routes>>

ResetPasswordReturn(w) ==
  /\ Returning(w, "/password/reset")
  /\ \E res \in RemoteResults("ConfirmForgotPassword") :
       IF res.err # ""
         THEN Respond(w, WithResult(w, res), JSON(500, [error |-> res.err]))
         ELSE Respond(w, WithResult(w, res), JSON(200, [message |-> "Password successfully reset."]))
  /\ UNCHANGED <<pc, dotenv, env, app, routes>>

LogoutUser(w, req) ==
  /\ Serving(w, req, "POST", "/signout")
  /\ LET user == DecodeUserSignOut(req.body)
         bind == BindJSON(req, user, RequiredUserSignOut(user))
     IN IF bind.err # ""
          THEN Respond(w, Received(req), JSON(400, [error |-> bind.err]))
          ELSE Invoke(w, Received(req), "GlobalSignOut", GlobalSignOutInput(app, bind.obj))
  /\ UNCHANGED <<pc, dotenv, env, app, routes>>

LogoutUserReturn(w) ==
  /\ Returning(w, "/signout")
  /\ \E res \in RemoteResults("GlobalSignOut") :
       IF res.err # ""
         THEN Respond(w, WithResult(w, res), JSON(500, [error |-> res.err]))
         ELSE Respond(w, WithResult(w, res), JSON(200, [message |-> "User logged out successfully."]))
  /\ UNCHANGED <<pc, dotenv, env, app, routes>>

\* the response has been sent; the worker takes its next request
Release(w) ==
  /\ reqs[w].phase = "done"
  /\ reqs' = [reqs EXCEPT ![w] = IdleReq]
  /\ UNCHANGED <<pc, dotenv, env, app, routes>>

Next ==
  \/ EnvInit
  \/ NewApp
  \/ RegisterRoutes
  \/ Run
  \/ \E w \in Workers :
       \/ \E req \in Requests("GET", "/") : RootHandler(w, req)
       \/ \E req \in Requests("POST", "/signup") : RegisterUser(w, req)
       \/ RegisterUserReturn(w)
       \/ \E req \in Requests("POST", "/signup/confirmation") : ConfirmUserRegistration(w, req)
       \/ ConfirmUserRegistrationReturn(w)
       \/ \E req \in Requests("POST", "/signin") : LoginUser(w, req)
       \/ LoginUserReturn(w)
       \/ \E req \in Requests("POST", "/password/forgot") : ForgotPassword(w, req)
       \/ ForgotPasswordReturn(w)
       \/ \E req \in Requests("POST", "/password/reset") : ResetPassword(w, req)
       \/ ResetPasswordReturn(w)
       \/ \E req \in Requests("POST", "/signout") : LogoutUser(w, req)
       \/ LogoutUserReturn(w)
       \/ Release(w)

NextConc ==
  \/ EnvInit
  \/ NewApp
  \/ RegisterRoutes
  \/ Run
  \/ \E w \in Workers :
       \/ \E req \in ConcRequests("GET", "/") : RootHandler(w, req)
       \/ \E req \in ConcRequests("POST", "/signup") : RegisterUser(w, req)
       \/ RegisterUserReturn(w)
       \/ \E req \in ConcRequests("POST", "/signup/confirmation") : ConfirmUserRegistration(w, req)
       \/ ConfirmUserRegistrationReturn(w)
       \/ \E req \in ConcRequests("POST", "/signin") : LoginUser(w, req)
       \/ LoginUserReturn(w)
       \/ \E req \in ConcRequests("POST", "/password/forgot") : ForgotPassword(w, req)
       \/ ForgotPasswordReturn(w)
       \/ \E req \in ConcRequests("POST", "/password/reset") : ResetPassword(w, req)
       \/ ResetPasswordReturn(w)
       \/ \E req \in ConcRequests("POST", "/signout") : LogoutUser(w, req)
       \/ LogoutUserReturn(w)
       \/ Release(w)

Spec == Init /\ [][Next]_vars

SpecConc == InitConc /\ [][NextConc]_vars

TypeOK ==
  /\ pc \in {"start", "envLoaded", "appBuilt", "routesRegistered", "listening", "exited"}
  /\ \A w \in Workers : reqs[w].phase \in {"idle", "calling", "done"}

(* ======================================================================= *)
(* Properties                                                              *)
(* ======================================================================= *)
PostRoutes ==
  {"/signup", "/signup/confirmation", "/signin", "/password/forgot",
   "/password/reset", "/signout"}

\* the JSON paths of the fields tagged binding:"required" on each route
RequiredPaths(route) ==
  CASE route = "/signup" -> {<<"user", "username">>, <<"user", "password">>, <<"email">>, <<"name">>}
    [] route = "/signup/confirmation" -> {<<"username">>, <<"confirmationCode">>}
    [] route = "/signin" -> {<<"username">>, <<"password">>}
    [] route = "/password/forgot" -> {<<"username">>}
    [] route = "/password/reset" -> {<<"user", "username">>, <<"user", "password">>, <<"confirmationCode">>}
    [] route = "/signout" -> {<<"accessToken">>}
    [] OTHER -> {}

\* the remote operation that belongs to each route
OpOf(route) ==
  CASE route = "/signup" -> "SignUp"
    [] route = "/signup/confirmation" -> "ConfirmSignUp"
    [] route = "/signin" -> "InitiateAuth"
    [] route = "/password/forgot" -> "ForgotPassword"
    [] route = "/password/reset" -> "ConfirmForgotPassword"
    [] route = "/signout" -> "GlobalSignOut"
    [] OTHER -> "none"

Present(body, path) ==
  IF Len(path) = 1 THEN path[1] \in DOMAIN body
  ELSE path[1] \in DOMAIN body /\ path[2] \in DOMAIN body[path[1]]

At(body, path) == IF Len(path) = 1 THEN body[path[1]] ELSE body[path[1]][path[2]]

OmitsRequired(r) == \E p \in RequiredPaths(r.route) : ~Present(r.body, p)
AllPresent(r) == r.decodable /\ \A p \in RequiredPaths(r.route) : Present(r.body, p)
AllNonEmpty(r) == AllPresent(r) /\ \A p \in RequiredPaths(r.route) : At(r.body, p) # ""

Active(r) == r.phase # "idle"
IsPost(r) == Active(r) /\ r.method = "POST" /\ r.route \in PostRoutes
BodyValues(resp) == {resp.body[k] : k \in DOMAIN resp.body}

(* C1: on each of the six POST routes a body that omits a required field  *)
(* is answered with HTTP 400 and no remote call is issued.                *)
C1_OmissionRejected ==
  \A w \in Workers :
    LET r == reqs[w] IN
      (IsPost(r) /\ OmitsRequired(r)) =>
        /\ r.phase = "done"
        /\ r.calls = <<>>
        /\ Len(r.resps) = 1
        /\ r.resps[1].status = 400

C1_Witness ==
  \E w \in Workers :
    LET r == reqs[w] IN
      /\ IsPost(r) /\ r.route = "/password/reset" /\ r.decodable
      /\ "user" \in DOMAIN r.body /\ "password" \notin DOMAIN r.body.user
      /\ "username" \in DOMAIN r.body.user /\ r.body.user.username # ""
      /\ "confirmationCode" \in DOMAIN r.body /\ r.body.confirmationCode # ""
      /\ r.phase = "done" /\ r.calls = <<>> /\ r.resps[1].status = 400

ExpectedSignUp(r) ==
  <<[op |-> "SignUp",
     input |-> [Username |-> r.body.user.username,
                Password |-> r.body.user.password,
                ClientId |-> app.AppClientID,
                UserAttributes |-> <<[Name |-> "email", Value |-> r.body.email],
                                     [Name |-> "name", Value |-> r.body.name]>>]]>>

(* C2 as stated: every signup request with user.username, user.password,  *)
(* email and name all present issues exactly one SignUp call carrying the *)
(* request's values and the configured client identifier.                 *)
C2_Original ==
  \A w \in Workers :
    LET r == reqs[w] IN
      (IsPost(r) /\ r.route = "/signup" /\ AllPresent(r)) =>
        r.calls = ExpectedSignUp(r)

(* C2 amended: every signup request whose four required fields are all    *)
(* present and non-empty issues exactly one SignUp call whose username,   *)
(* password, email and name attributes equal the request's values and     *)
(* whose client identifier is the configured application client id.       *)
C2_SignUpPassThrough ==
  \A w \in Workers :
    LET r == reqs[w] IN
      (IsPost(r) /\ r.route = "/signup" /\ AllNonEmpty(r)) =>
        /\ r.calls = ExpectedSignUp(r)
        /\ app.AppClientID = DotEnvFile.COGNITO_APP_CLIENT_ID

C2_Witness ==
  \E w \in Workers :
    LET r == reqs[w] IN
      /\ IsPost(r) /\ r.route = "/signup" /\ AllNonEmpty(r)
      /\ r.body.email # r.body.name
      /\ r.body.user.username # r.body.user.password
      /\ r.phase = "done" /\ Len(r.calls) = 1 /\ r.resps[1].status = 200

ExpectedCalls(r) ==
  CASE r.route = "/signup/confirmation" ->
         <<[op |-> "ConfirmSignUp",
            input |-> [ClientId |-> app.AppClientID,
                       ConfirmationCode |-> r.body.confirmationCode,
                       Username |-> r.body.username]]>>
    [] r.route = "/password/forgot" ->
         <<[op |-> "ForgotPassword",
            input |-> [Username |-> r.body.username, ClientId |-> app.AppClientID]]>>
    [] r.route = "/password/reset" ->
         <<[op |-> "ConfirmForgotPassword",
            input |-> [Username |-> r.body.user.username,
                       Password |-> r.body.user.password,
                       ConfirmationCode |-> r.body.confirmationCode,
                       ClientId |-> app.AppClientID]]>>
    [] r.route = "/signout" ->
         <<[op |-> "GlobalSignOut", input |-> [AccessToken |-> r.body.accessToken]]>>

FourRoutes == {"/signup/confirmation", "/password/forgot", "/password/reset", "/signout"}

(* C3 as stated: every well-formed request (no required field missing or  *)
(* malformed) on the confirmation, forgot-password, reset-password and    *)
(* sign-out routes issues exactly one remote call, the operation of its   *)
(* own route, with every input field copied from the body; no request     *)
(* invokes the operation of another route.                                *)
C3_Original ==
  \A w \in Workers :
    LET r == reqs[w] IN
      /\ (IsPost(r) /\ AllPresent(r) /\ r.route \in FourRoutes) => r.calls = ExpectedCalls(r)
      /\ \A i \in 1..Len(r.calls) : r.calls[i].op = OpOf(r.route)

(* C3 amended: every confirmation, forgot-password, reset-password or     *)
(* sign-out request whose required fields are all present and non-empty   *)
(* issues exactly one remote call, the operation of its own route, with   *)
(* every input field copied from the body; no request ever invokes the    *)
(* operation of another route.                                            *)
C3_OneCorrespondingCall ==
  \A w \in Workers :
    LET r == reqs[w] IN
      /\ (IsPost(r) /\ AllNonEmpty(r) /\ r.route \in FourRoutes) => r.calls = ExpectedCalls(r)
      /\ \A i \in 1..Len(r.calls) : r.calls[i].op = OpOf(r.route)

C3_Witness ==
  \E w \in Workers :
    LET r == reqs[w] IN
      /\ IsPost(r) /\ r.route = "/password/reset" /\ AllNonEmpty(r)
      /\ r.body.user.username # r.body.user.password
      /\ r.body.user.password # r.body.confirmationCode
      /\ r.phase = "done" /\ Len(r.calls) = 1 /\ r.resps[1].status = 200

(* C4: every sign-in whose InitiateAuth call returns without error is     *)
(* answered with HTTP 200, the fixed message, and non-empty accessToken   *)
(* and idToken fields equal to the tokens the call returned, also when    *)
(* the result carries no authentication result.                           *)
C4_SignInTokens ==
  \A w \in Workers :
    LET r == reqs[w] IN
      (IsPost(r) /\ r.route = "/signin" /\ r.phase = "done"
         /\ Len(r.calls) = 1 /\ r.result.err = "") =>
        /\ Len(r.resps) = 1
        /\ r.resps[1].status = 200
        /\ DOMAIN r.resps[1].body = {"message", "accessToken", "idToken"}
        /\ r.resps[1].body.message = "User Logged In Successfully"
        /\ r.resps[1].body.accessToken # ""
        /\ r.resps[1].body.idToken # ""
        /\ r.result.out.AuthenticationResult # <<>> =>
             /\ r.resps[1].body.accessToken = r.result.out.AuthenticationResult[1].AccessToken[1]
             /\ r.resps[1].body.idToken = r.result.out.AuthenticationResult[1].IdToken[1]

(* C5: on each POST route, when the remote call returns an error the      *)
(* response is HTTP 500 carrying exactly the remote error text, with no   *)
(* success message and no token.                                          *)
C5_RemoteErrorPassThrough ==
  \A w \in Workers :
    LET r == reqs[w] IN
      (IsPost(r) /\ r.phase = "done" /\ Len(r.calls) > 0 /\ r.result.err # "") =>
        /\ Len(r.resps) = 1
        /\ r.resps[1].status = 500
        /\ DOMAIN r.resps[1].body = {"error"}
        /\ r.resps[1].body.error = r.result.err

C5_Witness ==
  \E w \in Workers :
    LET r == reqs[w] IN
      /\ IsPost(r) /\ r.route = "/signin" /\ r.phase = "done"
      /\ r.result.err = "NotAuthorizedException: Incorrect username or password."
      /\ r.resps[1].status = 500
      /\ "accessToken" \notin DOMAIN r.resps[1].body

(* C6: GET on the root route always answers HTTP 200 with exactly         *)
(* {"message":"Learning AWS Cognito"}, whatever the body, and issues no   *)
(* remote call.                                                           *)
C6_RootFixedAnswer ==
  \A w \in Workers :
    LET r == reqs[w] IN
      (Active(r) /\ r.method = "GET" /\ r.route = "/") =>
        /\ r.phase = "done"
        /\ r.calls = <<>>
        /\ r.resps = <<[status |-> 200, body |-> [message |-> "Learning AWS Cognito"]]>>

C6_Witness ==
  \E w \in Workers :
    LET r == reqs[w] IN
      /\ r.phase = "done" /\ r.method = "GET" /\ r.route = "/"
      /\ ~r.decodable /\ r.body # EmptyObj
      /\ Len(r.resps) = 1

(* C7: when the settings file cannot be loaded the process ends in        *)
(* EnvInit: no client is built, no route is registered, the listener is   *)
(* never started and no request is served; the listener runs only after   *)
(* EnvInit has loaded the settings.                                       *)
C7_FatalStartup ==
  /\ dotenv = "unreadable" =>
       /\ pc \in {"start", "exited"}
       /\ app.CognitoClient = "nil"
       /\ routes = {}
       /\ \A w \in Workers : reqs[w] = IdleReq
  /\ pc = "listening" => (dotenv = "readable" /\ env = DotEnvFile)
  /\ (\E w \in Workers : Active(reqs[w])) => (dotenv = "readable" /\ env = DotEnvFile)

C7_Witness == dotenv = "unreadable" /\ pc = "exited"

(* C8: every POST request validates, makes at most one remote call and    *)
(* writes exactly one response; the response is HTTP 200 exactly when     *)
(* validation passed and the single remote call returned no error.        *)
C8_SingleCallSingleResponse ==
  \A w \in Workers :
    LET r == reqs[w] IN
      (IsPost(r) /\ r.phase = "done") =>
        /\ Len(r.resps) = 1
        /\ Len(r.calls) <= 1
        /\ (r.resps[1].status = 200) <=> (Len(r.calls) = 1 /\ r.result.err = "")
        /\ (Len(r.calls) = 1) <=> AllNonEmpty(r)

\* the strings a remote input takes from the request
PayloadStrings(c) ==
  CASE c.op = "SignUp" ->
         {c.input.Username, c.input.Password}
           \cup {c.input.UserAttributes[i].Value : i \in 1..Len(c.input.UserAttributes)}
    [] c.op = "ConfirmSignUp" -> {c.input.ConfirmationCode, c.input.Username}
    [] c.op = "InitiateAuth" ->
         {c.input.AuthParameters[k] : k \in DOMAIN c.input.AuthParameters}
    [] c.op = "ForgotPassword" -> {c.input.Username}
    [] c.op = "ConfirmForgotPassword" ->
         {c.input.Username, c.input.Password, c.input.ConfirmationCode}
    [] c.op = "GlobalSignOut" -> {c.input.AccessToken}

\* every string of a remote input
InputStrings(c) ==
  PayloadStrings(c)
    \cup (IF "ClientId" \in DOMAIN c.input THEN {c.input.ClientId} ELSE {})
    \cup (IF "AuthFlow" \in DOMAIN c.input THEN {c.input.AuthFlow} ELSE {})
    \cup (IF c.op = "SignUp"
            THEN {c.input.UserAttributes[i].Name : i \in 1..Len(c.input.UserAttributes)}
            ELSE {})

\* the strings of a request's own body
LeafStrings(body) ==
  {body[k] : k \in DOMAIN body \ {"user"}}
    \cup (IF "user" \in DOMAIN body THEN {body.user[k] : k \in DOMAIN body.user} ELSE {})

\* the strings of a request's own remote result
ResultStrings(res) ==
  (IF res.err # "" THEN {res.err} ELSE {})
    \cup (IF "AuthenticationResult" \in DOMAIN res.out /\ res.out.AuthenticationResult # <<>>
            THEN {res.out.AuthenticationResult[1].AccessToken[1],
                  res.out.AuthenticationResult[1].IdToken[1]}
            ELSE {})

FixedTexts ==
  {"Learning AWS Cognito", "User Registered Successfully", "User is verified",
   "User Logged In Successfully",
   "Code was sent to your email. Please use that code to reset your password.",
   "Password successfully reset.", "User logged out successfully.",
   DecodeErrorText, RequiredErrorText}

SameRequest(r1, r2) ==
  /\ r1.method = r2.method
  /\ r1.route = r2.route
  /\ r1.decodable = r2.decodable
  /\ r1.body = r2.body

C9_Isolation ==
  /\ \A w \in Workers :
       LET r == reqs[w] IN
         /\ \A i \in 1..Len(r.calls) : PayloadStrings(r.calls[i]) \subseteq LeafStrings(r.body)
         /\ \A i \in 1..Len(r.resps) :
              BodyValues(r.resps[i]) \subseteq FixedTexts \cup ResultStrings(r.result)
  /\ \A w1, w2 \in Workers :
       LET r1 == reqs[w1]
           r2 == reqs[w2]
       IN (Active(r1) /\ Active(r2) /\ SameRequest(r1, r2)) =>
            /\ r1.calls = r2.calls
            /\ (r1.phase = "done" /\ r2.phase = "done" /\ r1.result = r2.result)
                 => r1.resps = r2.resps

(* C9: under every interleaving of concurrent requests the application    *)
(* context is never written once it has been built, and a request's       *)
(* remote input and response are determined by its own body and its own   *)
(* remote result alone.                                                   *)
C9_ReadOnlyContext ==
  /\ []C9_Isolation
  /\ [][pc \notin {"start", "envLoaded"} => app' = app]_vars

C9_Witness ==
  \E w1, w2 \in Workers :
    LET r1 == reqs[w1]
        r2 == reqs[w2]
    IN /\ w1 # w2
       /\ r1.route = "/signin" /\ r2.route = "/signin"
       /\ r1.body # r2.body
       /\ r1.phase = "done" /\ r1.resps[1].status = 200
       /\ r2.phase = "done" /\ r2.resps[1].status = 500 /\ r2.result.err # ""
       /\ app.Token = ""

(* C10: the application client identifier is the only configuration value *)
(* in any remote input: every operation but sign-out carries ClientId     *)
(* equal to the configured AppClientID, sign-out carries none, and the    *)
(* client secret and user pool identifier occur in no remote input and no *)
(* response.                                                              *)
C10_OnlyClientIdSent ==
  \A w \in Workers :
    LET r == reqs[w]
        secrets == {app.AppClientSecret, app.UserPoolID,
                    DotEnvFile.COGNITO_APP_CLIENT_SECRET, DotEnvFile.COGNITO_USER_POOL_ID}
    IN Active(r) =>
         /\ app.AppClientID = DotEnvFile.COGNITO_APP_CLIENT_ID
         /\ app.AppClientSecret = DotEnvFile.COGNITO_APP_CLIENT_SECRET
         /\ app.UserPoolID = DotEnvFile.COGNITO_USER_POOL_ID
         /\ \A i \in 1..Len(r.calls) :
              LET c == r.calls[i] IN
                /\ c.op = "GlobalSignOut" => "ClientId" \notin DOMAIN c.input
                /\ c.op # "GlobalSignOut" => c.input.ClientId = app.AppClientID
                /\ InputStrings(c) \cap secrets = {}
         /\ \A i \in 1..Len(r.resps) : BodyValues(r.resps[i]) \cap secrets = {}

C10_Witness ==
  \E w \in Workers :
    LET r == reqs[w] IN
      /\ r.route = "/signin" /\ r.phase = "done" /\ Len(r.calls) = 1
      /\ r.calls[1].input.ClientId = "client-id"
      /\ app.AppClientSecret = "client-secret"
      /\ r.resps[1].status = 200
====
